---- MODULE Spec2Model ----
(***************************************************************************)
(* Extract ISBN plugin: the PDF page-range scan (pdf.py), the queueing     *)
(* dialog (dialogs.py) and the preference store (config.py).               *)
(*                                                                         *)
(* Three specifications share the variables:                               *)
(*   Spec        one run of get_isbn_from_pdf / get_isbn on one PDF        *)
(*   SpecDialog  one QueueProgressDialog from construction to do_queue     *)
(*   SpecConfig  the ConfigWidget opened, edited, saved any number of times*)
(*                                                                         *)
(* Text is a sequence of one-character strings.  An optional value is a    *)
(* sequence of length 0 (Python None / unbound) or 1.                      *)
(***************************************************************************)
EXTENDS Integers, Sequences, FiniteSets, TLC

VARIABLES
    \* ---- config.py ----
    store,          \* plugin_prefs: <<>> nothing saved, or <<dict>> saved under STORE_NAME
    cfg_open,       \* a ConfigWidget exists
    isbn13_ledit,   \* text of the prefix line edit
    showCombo,      \* selected key of the post-task combo
    \* ---- pdf.py ----
    pc,             \* position in get_isbn_from_pdf / get_isbn
    pdfinfo_run,    \* what the pdfinfo subprocess did
    in_process,     \* numeric_version < (0, 8, 55): get_isbn called in-process
    total_pages,    \* optional page count (local of get_isbn)
    scanner,        \* optional BookScanner (local of get_isbn; <<>> is unbound)
    text,           \* optional text returned by the last call_pdftohtml
    calls,          \* log of call_pdftohtml invocations
    feeds,          \* log of texts given to look_for_identifiers_in_text
    isbn_outcome,   \* how get_isbn ended
    pdf_result,     \* how get_isbn_from_pdf ended
    \* ---- dialogs.py ----
    book_ids, db, i, failed_ids, no_format_ids, books_to_scan,
    gui,            \* self.gui is not None
    timer,          \* a QTimer.singleShot(0, self.do_book) is pending
    index_error,    \* do_book raised IndexError on book_ids[i]
    do_queue_calls, \* number of times do_queue was entered
    queue_calls,    \* number of times the queue callback was invoked
    warnings,       \* number of warning dialogs shown
    hidden          \* self.hide() was called

cfgVars == <<store, cfg_open, isbn13_ledit, showCombo>>
pdfVars == <<pc, pdfinfo_run, in_process, total_pages, scanner, text, calls, feeds,
             isbn_outcome, pdf_result>>
dlgVars == <<book_ids, db, i, failed_ids, no_format_ids, books_to_scan, gui,
             timer, index_error, do_queue_calls, queue_calls, warnings, hidden>>
vars == <<cfgVars, pdfVars, dlgVars>>

None == <<>>
Some(x) == <<x>>

(***************************************************************************)
(* Bounds of the model.                                                    *)
(***************************************************************************)
MaxChunkLen == 2      \* identifier-like matches in one extracted text
MaxPages == 42        \* largest page count pdfinfo reports
MaxEdit == 3          \* longest text typed into the prefix line edit
MaxBooks == 3         \* longest book_ids list
NumBooks == 2         \* distinct book ids in the library
MaxDoQueueCalls == 3  \* do_queue entries, the timer double fire included

(***************************************************************************)
(* config.py                                                               *)
(***************************************************************************)
DefaultPrefixes == << <<"9","7","7">>, <<"9","7","8">>, <<"9","7","9">> >>

DEFAULT_STORE_VALUES ==
    [postTask |-> "none", validISBN13Prefix |-> DefaultPrefixes]

SHOW_TASKS == {"none", "updated"}

\* plugin_prefs[STORE_NAME]: the saved dict, else plugin_prefs.defaults[STORE_NAME]
plugin_prefs_get(st) == IF st = None THEN DEFAULT_STORE_VALUES ELSE st[1]

\* c.get(key, default) on a dict
dict_get(c, key, default) == IF key \in DOMAIN c THEN c[key] ELSE default

\* c.get(KEY_VALID_ISBN13_PREFIX, DEFAULT_STORE_VALUES[KEY_VALID_ISBN13_PREFIX])
get_valid_prefixes(st) ==
    dict_get(plugin_prefs_get(st), "validISBN13Prefix",
             DEFAULT_STORE_VALUES.validISBN13Prefix)

\* c.get(KEY_POST_TASK, DEFAULT_STORE_VALUES[KEY_POST_TASK])
get_post_task(st) ==
    dict_get(plugin_prefs_get(st), "postTask", DEFAULT_STORE_VALUES.postTask)

\* str.replace(' ', '')
replace_spaces(t) == SelectSeq(t, LAMBDA ch : ch # " ")

FirstComma(t) == CHOOSE k \in 1..Len(t) :
    t[k] = "," /\ \A j \in 1..(k-1) : t[j] # ","

\* str.split(','): ''.split(',') is [''], 'a,,b'.split(',') is ['a', '', 'b']
RECURSIVE split(_)
split(t) ==
    IF \A k \in 1..Len(t) : t[k] # ","
    THEN <<t>>
    ELSE <<SubSeq(t, 1, FirstComma(t) - 1)>>
             \o split(SubSeq(t, FirstComma(t) + 1, Len(t)))

\* ','.join(prefixes)
RECURSIVE join(_)
join(l) ==
    IF l = <<>> THEN <<>>
    ELSE IF Len(l) = 1 THEN l[1]
    ELSE l[1] \o <<",">> \o join(Tail(l))

\* the value save_settings stores under KEY_VALID_ISBN13_PREFIX
saved_prefixes(ledit_text) == split(replace_spaces(ledit_text))

EditChars == {"9", ",", " "}

\* ConfigWidget.__init__
OpenConfig ==
    /\ ~cfg_open
    /\ cfg_open' = TRUE
    /\ isbn13_ledit' = join(get_valid_prefixes(store))
    /\ showCombo' = get_post_task(store)
    /\ UNCHANGED <<store, pdfVars, dlgVars>>

\* the user types one character into the prefix line edit
TypeChar ==
    /\ cfg_open
    /\ Len(isbn13_ledit) < MaxEdit
    /\ \E ch \in EditChars : isbn13_ledit' = Append(isbn13_ledit, ch)
    /\ UNCHANGED <<store, cfg_open, showCombo, pdfVars, dlgVars>>

\* the user deletes the last character of the prefix line edit
Backspace ==
    /\ cfg_open
    /\ isbn13_ledit # <<>>
    /\ isbn13_ledit' = SubSeq(isbn13_ledit, 1, Len(isbn13_ledit) - 1)
    /\ UNCHANGED <<store, cfg_open, showCombo, pdfVars, dlgVars>>

\* the user picks an entry of the post-task combo
SelectTask ==
    /\ cfg_open
    /\ \E k \in SHOW_TASKS : k # showCombo /\ showCombo' = k
    /\ UNCHANGED <<store, cfg_open, isbn13_ledit, pdfVars, dlgVars>>

\* ConfigWidget.save_settings, after which the widget is discarded
save_settings ==
    /\ cfg_open
    /\ store' = Some([postTask |-> showCombo,
                      validISBN13Prefix |-> saved_prefixes(isbn13_ledit)])
    /\ cfg_open' = FALSE
    /\ isbn13_ledit' = <<>>
    /\ showCombo' = "none"
    /\ UNCHANGED <<pdfVars, dlgVars>>

\* the widget is discarded without saving
CancelConfig ==
    /\ cfg_open
    /\ cfg_open' = FALSE
    /\ isbn13_ledit' = <<>>
    /\ showCombo' = "none"
    /\ UNCHANGED <<store, pdfVars, dlgVars>>

CfgInit ==
    /\ store = None
    /\ cfg_open = FALSE
    /\ isbn13_ledit = <<>>
    /\ showCombo = "none"

(***************************************************************************)
(* scan.py, BookScanner.  The file is not among the sources; the scanner   *)
(* is modelled from the specification's section 4.1.  A text is the        *)
(* sequence of substrings the loose ISBN pattern matches in it.            *)
(***************************************************************************)
DigitChars == <<"0", "1", "2", "3", "4", "5", "6", "7", "8", "9">>

IsDigit(ch) == \E k \in 1..10 : DigitChars[k] = ch

DigitVal(ch) ==
    IF ch = "X" THEN 10 ELSE (CHOOSE k \in 1..10 : DigitChars[k] = ch) - 1

Separators == {"-", " ", "."}

\* step 2: strip separators
strip_separators(m) == SelectSeq(m, LAMBDA ch : ch \notin Separators)

RECURSIVE WeightedSum10(_, _)
WeightedSum10(d, k) ==
    IF k > 10 THEN 0 ELSE (11 - k) * DigitVal(d[k]) + WeightedSum10(d, k + 1)

RECURSIVE WeightedSum13(_, _)
WeightedSum13(d, k) ==
    IF k > 12 THEN 0
    ELSE (IF k % 2 = 1 THEN 1 ELSE 3) * DigitVal(d[k]) + WeightedSum13(d, k + 1)

\* step 3, ISBN-10
valid_isbn10(d) ==
    /\ Len(d) = 10
    /\ \A k \in 1..9 : IsDigit(d[k])
    /\ IsDigit(d[10]) \/ d[10] = "X"
    /\ WeightedSum10(d, 1) % 11 = 0

\* steps 3 and 4, ISBN-13
valid_isbn13(d, prefixes) ==
    /\ Len(d) = 13
    /\ \A k \in 1..13 : IsDigit(d[k])
    /\ (10 - (WeightedSum13(d, 1) % 10)) % 10 = DigitVal(d[13])
    /\ \E k \in 1..Len(prefixes) : prefixes[k] = SubSeq(d, 1, 3)

\* BookScanner(log): empty ScanState, prefixes read from the preference store
BookScanner(st) ==
    [valid_isbn13s |-> get_valid_prefixes(st), found13 |-> None, found10 |-> None]

\* step 5 for one match: first valid match of each kind wins
scan_match(sc, m) ==
    LET d == strip_separators(m) IN
    IF valid_isbn13(d, sc.valid_isbn13s) /\ sc.found13 = None
    THEN [sc EXCEPT !.found13 = Some([kind |-> "ISBN13", digits |-> d])]
    ELSE IF valid_isbn10(d) /\ sc.found10 = None
    THEN [sc EXCEPT !.found10 = Some([kind |-> "ISBN10", digits |-> d])]
    ELSE sc

\* feed(text)
RECURSIVE look_for_identifiers_in_text(_, _)
look_for_identifiers_in_text(sc, t) ==
    IF t = <<>> THEN sc
    ELSE look_for_identifiers_in_text(scan_match(sc, Head(t)), Tail(t))

\* has_identifier(): true once any valid ISBN-13 is found
has_identifier(sc) == sc.found13 # None

\* result(): ISBN-13 if present, else ISBN-10 if present, else none
get_isbn_result(sc) == IF sc.found13 # None THEN sc.found13 ELSE sc.found10

(***************************************************************************)
(* Inputs of the PDF scan.                                                 *)
(***************************************************************************)
V13 == <<"9","7","8","-","0","-","1","3","-","4","6","8","5","9","9","-","1">>
P13 == <<"1","2","3","4","5","6","7","8","9","0","1","2","8">>
V10 == <<"0","8","0","4","4","2","9","5","7","X">>
B10 == <<"0","8","0","4","4","2","9","5","7","1">>

Candidates == {V13, P13, V10, B10}

SeqsUpTo(S, n) == UNION {[1..k -> S] : k \in 0..n}

Texts == SeqsUpTo(Candidates, MaxChunkLen)

\* preference stores a scan can run under: nothing saved, or prefix "123" saved
ScanStores ==
    {None, Some([postTask |-> "none", validISBN13Prefix |-> << <<"1","2","3">> >>])}

(***************************************************************************)
(* pdf.py                                                                  *)
(***************************************************************************)
FRONT_PAGES == 25
BACK_PAGES == 15

PageCounts ==
    {0, 1, FRONT_PAGES + 1} \cup ((FRONT_PAGES + BACK_PAGES - 1)..MaxPages)

\* how pdfinfo prints a page count
Decimal(n) ==
    IF n < 10 THEN <<DigitChars[n + 1]>>
    ELSE <<DigitChars[(n \div 10) + 1], DigitChars[(n % 10) + 1]>>

Line(colon, field, val) == [colon |-> colon, field |-> field, val |-> val]

PdfinfoRuns ==
    {[kind |-> "OSError", lines |-> <<>>],
     [kind |-> "CalledProcessError", lines |-> <<>>],
     [kind |-> "not_utf8", lines |-> <<>>],
     [kind |-> "ok", lines |-> <<Line(TRUE, "Title", <<"x">>)>>],
     [kind |-> "ok", lines |-> <<Line(FALSE, "", <<>>), Line(TRUE, "Pages", <<>>)>>]}
    \cup {[kind |-> "ok",
           lines |-> <<Line(TRUE, "Title", <<"x">>), Line(TRUE, "Pages", Decimal(n))>>] :
          n \in PageCounts}

\* int(s) of a decimal string
RECURSIVE int(_)
int(s) ==
    IF s = <<>> THEN 0
    ELSE 10 * int(SubSeq(s, 1, Len(s) - 1)) + DigitVal(s[Len(s)])

\* the lines that set ans['Pages']
PagesLines(lines) ==
    SelectSeq(lines, LAMBDA l : l.colon /\ l.field = "Pages" /\ l.val # <<>>)

\* line 111: check_output raises OSError when pdfinfo cannot be started; only
\* CalledProcessError is caught
get_page_count_raises(run) == run.kind = "OSError"

\* the value get_page_count returns when it does not raise
get_page_count(run) ==
    IF run.kind = "CalledProcessError" THEN None
    ELSE IF run.kind = "not_utf8" THEN None
    ELSE IF PagesLines(run.lines) # <<>>
    THEN Some(int(PagesLines(run.lines)[Len(PagesLines(run.lines))].val))
    ELSE None

\* what the pdftohtml subprocess did
ToolRuns ==
    {[kind |-> k, text |-> <<>>] : k \in {"ENOENT", "nonzero_exit", "no_index"}}
    \cup {[kind |-> "ok", text |-> t] : t \in Texts}

\* call_pdftohtml: the text, or the exception raised
call_pdftohtml(run) ==
    IF run.kind = "ENOENT" THEN [exc |-> "ConversionError", text |-> <<>>]
    ELSE IF run.kind = "nonzero_exit" THEN [exc |-> "ConversionError", text |-> <<>>]
    ELSE IF run.kind = "no_index" THEN [exc |-> "DRMError", text |-> <<>>]
    ELSE [exc |-> "", text |-> run.text]

Returned(v) == [status |-> "return", value |-> v, exc |-> ""]
Raised(e) == [status |-> "raise", value |-> None, exc |-> e]
Pending == [status |-> "pending", value |-> None, exc |-> ""]

PdfResultPending == [status |-> "pending", value |-> None, exc |-> ""]

\* line 75 with the comparison off by one
use_whole_document_strict(tp) == tp < FRONT_PAGES + BACK_PAGES

\* line 75: no point in doing all the complexity of ranges
use_whole_document(tp) == tp <= FRONT_PAGES + BACK_PAGES

\* line 84 with the front window size in place of the back one
back_first_front_window(tp) == tp - FRONT_PAGES

\* line 84: first page of the back range
back_first(tp) == tp - BACK_PAGES

\* line 83 without the has_identifier test
need_back_range_always(sc) == TRUE

\* line 83: the back range is extracted only when the front found no identifier
need_back_range(sc) == ~has_identifier(sc)

\* lines 78, 82, 85 with the text not handed to the scanner
feed_text_dropped(sc, t) == sc

\* lines 78, 82, 85: scanner.look_for_identifiers_in_text([text])
feed_text(sc, t) == look_for_identifiers_in_text(sc, t)

\* lines 77, 81, 84 with the extractor's exception swallowed as empty text
after_extract_swallowed(r, next_pc) ==
    [pc |-> next_pc, text |-> Some(r.text), outcome |-> Pending]

\* lines 77, 81, 84: text = call_pdftohtml(...); an exception leaves get_isbn
\* through the finally clause (lines 87-90)
after_extract(r, next_pc) ==
    IF r.exc = ""
    THEN [pc |-> next_pc, text |-> Some(r.text), outcome |-> Pending]
    ELSE [pc |-> "returned", text |-> text, outcome |-> Raised(r.exc)]

\* line 86: return scanner.get_isbn_result(); scanner is bound only by line 73
return_value(sc) ==
    IF sc = None THEN Raised("UnboundLocalError")
    ELSE Returned(get_isbn_result(sc[1]))

\* get_isbn_from_pdf, lines 43-62: the in-process call lets the exception
\* through, the forked call turns the worker's failure into RuntimeError
from_pdf_result(inproc, o) ==
    IF o.status = "raise"
    THEN [status |-> "error", value |-> None,
          exc |-> IF inproc THEN o.exc ELSE "RuntimeError"]
    ELSE [status |-> "info", value |-> o.value, exc |-> ""]

Call(first, last, ok) == [first |-> first, last |-> last, ok |-> ok]

\* one call_pdftohtml(log, output_dir, pdf_name, first, last) made at `from`
Extract(from, first, last, next_pc) ==
    /\ pc = from
    /\ \E run \in ToolRuns :
         LET r == call_pdftohtml(run)
             a == after_extract(r, next_pc)
         IN /\ calls' = Append(calls, Call(first, last, r.exc = ""))
            /\ pc' = a.pc
            /\ text' = a.text
            /\ isbn_outcome' = a.outcome
    /\ UNCHANGED <<pdfinfo_run, in_process, total_pages, scanner, feeds, pdf_result>>
    /\ UNCHANGED <<cfgVars, dlgVars>>

\* one scanner.look_for_identifiers_in_text([text]) made at `from`
Feed(from) ==
    /\ pc = from
    /\ scanner' = Some(feed_text(scanner[1], text[1]))
    /\ feeds' = Append(feeds, text[1])
    /\ UNCHANGED <<pdfinfo_run, in_process, total_pages, text, calls, isbn_outcome,
                   pdf_result>>
    /\ UNCHANGED <<cfgVars, dlgVars>>

\* line 71
GetPageCount ==
    /\ pc = "start"
    /\ \E run \in PdfinfoRuns :
         /\ pdfinfo_run' = run
         /\ IF get_page_count_raises(run)
            THEN /\ pc' = "returned"
                 /\ isbn_outcome' = Raised("OSError")
                 /\ UNCHANGED total_pages
            ELSE /\ pc' = "counted"
                 /\ total_pages' = get_page_count(run)
                 /\ UNCHANGED isbn_outcome
    /\ UNCHANGED <<in_process, scanner, text, calls, feeds, pdf_result>>
    /\ UNCHANGED <<cfgVars, dlgVars>>

\* line 72, total_pages is None: the body of the if is skipped
SkipScan ==
    /\ pc = "counted"
    /\ total_pages = None
    /\ pc' = "return"
    /\ UNCHANGED <<pdfinfo_run, in_process, total_pages, scanner, text, calls, feeds,
                   isbn_outcome, pdf_result>>
    /\ UNCHANGED <<cfgVars, dlgVars>>

\* lines 72-75
CreateScanner ==
    /\ pc = "counted"
    /\ total_pages # None
    /\ scanner' = Some(BookScanner(store))
    /\ pc' = IF use_whole_document(total_pages[1])
             THEN "extract_whole" ELSE "extract_front"
    /\ UNCHANGED <<pdfinfo_run, in_process, total_pages, text, calls, feeds,
                   isbn_outcome, pdf_result>>
    /\ UNCHANGED <<cfgVars, dlgVars>>

\* line 77
ExtractWhole ==
    /\ total_pages # None
    /\ Extract("extract_whole", None, None, "feed_whole")

\* line 78
FeedWhole == Feed("feed_whole") /\ pc' = "return"

\* line 81
ExtractFront ==
    /\ total_pages # None
    /\ Extract("extract_front", Some(1), Some(FRONT_PAGES), "feed_front")

\* lines 82-83
FeedFront ==
    /\ Feed("feed_front")
    /\ pc' = IF need_back_range(scanner'[1]) THEN "extract_back" ELSE "return"

\* line 84
ExtractBack ==
    /\ total_pages # None
    /\ Extract("extract_back", Some(back_first(total_pages[1])), total_pages,
               "feed_back")

\* line 85
FeedBack == Feed("feed_back") /\ pc' = "return"

\* lines 86-90
Return ==
    /\ pc = "return"
    /\ isbn_outcome' = return_value(scanner)
    /\ pc' = "returned"
    /\ UNCHANGED <<pdfinfo_run, in_process, total_pages, scanner, text, calls, feeds,
                   pdf_result>>
    /\ UNCHANGED <<cfgVars, dlgVars>>

\* get_isbn_from_pdf after get_isbn ended, lines 43-62
FinishFromPdf ==
    /\ pc = "returned"
    /\ pdf_result' = from_pdf_result(in_process, isbn_outcome)
    /\ pc' = "done"
    /\ UNCHANGED <<pdfinfo_run, in_process, total_pages, scanner, text, calls, feeds,
                   isbn_outcome>>
    /\ UNCHANGED <<cfgVars, dlgVars>>

PdfIdle ==
    /\ pdfinfo_run = [kind |-> "none", lines |-> <<>>]
    /\ total_pages = None
    /\ scanner = None
    /\ text = None
    /\ calls = <<>>
    /\ feeds = <<>>
    /\ isbn_outcome = Pending
    /\ pdf_result = PdfResultPending

(***************************************************************************)
(* dialogs.py, QueueProgressDialog                                         *)
(***************************************************************************)
Books == 1..NumBooks

\* what the library gives for a book: formats, no formats, get_metadata
\* raising (line 39), or a later statement of the try block raising before
\* the append of lines 52-53 (lines 46-51)
MetadataOutcomes == {"formats", "no_formats", "raise_metadata", "raise_paths"}

\* title as the except clause sees it: '' (line 37) until line 40 has run
title_seen(out) == IF out = "raise_metadata" THEN "" ELSE "title"

Entry(book_id, out) == [book_id |-> book_id, title |-> title_seen(out)]

\* line 42 left out: a book without formats is recorded in no_format_ids only
failed_after_raise_only(out, fl, e) ==
    IF out \in {"raise_metadata", "raise_paths"} THEN Append(fl, e) ELSE fl

\* lines 42 and 57
failed_after(out, fl, e) == IF out = "formats" THEN fl ELSE Append(fl, e)

\* line 43
no_format_after(out, nl, e) == IF out = "no_formats" THEN Append(nl, e) ELSE nl

\* lines 52-53
scan_after(out, bl, e) == IF out = "formats" THEN Append(bl, e) ELSE bl

\* lines 59-62: the loop ends when every book id was taken
at_last_book(n, ids) == n >= Len(ids)

\* do_queue without the guard of lines 65-68
do_queue_unguarded(bts) ==
    /\ do_queue_calls' = do_queue_calls + 1
    /\ hidden' = TRUE
    /\ warnings' = IF bts = <<>> THEN warnings + 1 ELSE warnings
    /\ gui' = FALSE
    /\ queue_calls' = IF bts # <<>> THEN queue_calls + 1 ELSE queue_calls

\* do_queue, lines 64-77, called with the books collected so far
do_queue(bts) ==
    /\ do_queue_calls' = do_queue_calls + 1
    /\ IF ~gui
       THEN UNCHANGED <<gui, hidden, warnings, queue_calls>>
       ELSE /\ hidden' = TRUE
            /\ warnings' = IF bts = <<>> THEN warnings + 1 ELSE warnings
            /\ gui' = FALSE
            /\ queue_calls' = IF bts # <<>> THEN queue_calls + 1 ELSE queue_calls

\* do_book, lines 34-62, run by the pending single-shot timer
do_book ==
    /\ timer
    /\ IF i >= Len(book_ids)
       THEN \* line 35: book_ids[self.i] raises IndexError, nothing is rescheduled
            /\ index_error' = TRUE
            /\ timer' = FALSE
            /\ UNCHANGED <<i, failed_ids, no_format_ids, books_to_scan, gui,
                           do_queue_calls, queue_calls, warnings, hidden>>
       ELSE LET book_id == book_ids[i + 1]
                out == db[book_id]
                e == Entry(book_id, out)
            IN /\ i' = i + 1
               /\ failed_ids' = failed_after(out, failed_ids, e)
               /\ no_format_ids' = no_format_after(out, no_format_ids, e)
               /\ books_to_scan' = scan_after(out, books_to_scan, e)
               /\ UNCHANGED index_error
               /\ IF at_last_book(i + 1, book_ids)
                  THEN timer' = FALSE /\ do_queue(books_to_scan')
                  ELSE /\ timer' = TRUE
                       /\ UNCHANGED <<gui, do_queue_calls, queue_calls, warnings,
                                      hidden>>
    /\ UNCHANGED <<book_ids, db>>
    /\ UNCHANGED <<cfgVars, pdfVars>>

\* do_queue entered again (the double call lines 65-68 guard against)
do_queue_again ==
    /\ do_queue_calls >= 1
    /\ do_queue_calls < MaxDoQueueCalls
    /\ do_queue(books_to_scan)
    /\ UNCHANGED <<book_ids, db, i, failed_ids, no_format_ids, books_to_scan, timer,
                   index_error>>
    /\ UNCHANGED <<cfgVars, pdfVars>>

\* QueueProgressDialog.__init__, lines 22-32
DlgConstructed ==
    /\ book_ids \in SeqsUpTo(Books, MaxBooks)
    /\ db \in [Books -> MetadataOutcomes]
    /\ i = 0
    /\ failed_ids = <<>>
    /\ no_format_ids = <<>>
    /\ books_to_scan = <<>>
    /\ gui = TRUE
    /\ timer = TRUE
    /\ index_error = FALSE
    /\ do_queue_calls = 0
    /\ queue_calls = 0
    /\ warnings = 0
    /\ hidden = FALSE

\* no dialog exists
DlgIdle ==
    /\ book_ids = <<>>
    /\ db = [b \in Books |-> "formats"]
    /\ i = 0
    /\ failed_ids = <<>>
    /\ no_format_ids = <<>>
    /\ books_to_scan = <<>>
    /\ gui = FALSE
    /\ timer = FALSE
    /\ index_error = FALSE
    /\ do_queue_calls = 0
    /\ queue_calls = 0
    /\ warnings = 0
    /\ hidden = FALSE

(***************************************************************************)
(* Specifications                                                          *)
(***************************************************************************)
\* one PDF scanned by get_isbn_from_pdf
Init ==
    /\ store \in ScanStores
    /\ cfg_open = FALSE
    /\ isbn13_ledit = <<>>
    /\ showCombo = "none"
    /\ pc = "start"
    /\ in_process \in BOOLEAN
    /\ PdfIdle
    /\ DlgIdle

Next ==
    \/ GetPageCount
    \/ SkipScan
    \/ CreateScanner
    \/ ExtractWhole
    \/ FeedWhole
    \/ ExtractFront
    \/ FeedFront
    \/ ExtractBack
    \/ FeedBack
    \/ Return
    \/ FinishFromPdf

Spec == Init /\ [][Next]_vars

\* one QueueProgressDialog
InitDialog ==
    /\ CfgInit
    /\ pc = "idle"
    /\ in_process = FALSE
    /\ PdfIdle
    /\ DlgConstructed

NextDialog ==
    \/ do_book
    \/ do_queue_again

SpecDialog == InitDialog /\ [][NextDialog]_vars

\* the configuration widget
InitConfig ==
    /\ CfgInit
    /\ pc = "idle"
    /\ in_process = FALSE
    /\ PdfIdle
    /\ DlgIdle

NextConfig ==
    \/ OpenConfig
    \/ TypeChar
    \/ Backspace
    \/ SelectTask
    \/ save_settings
    \/ CancelConfig

SpecConfig == InitConfig /\ [][NextConfig]_vars

(***************************************************************************)
(* Properties                                                              *)
(***************************************************************************)
Finished == pc \in {"returned", "done"}

PageCountKnown == total_pages # None

\* get_page_count returned None: pdfinfo failed, printed no UTF-8, or no Pages
PageCountUnavailable ==
    /\ pdfinfo_run.kind \in {"CalledProcessError", "not_utf8", "ok"}
    /\ total_pages = None

\* the text holds a match that is a valid ISBN-13 under the stored prefixes
ContainsValid13(t) ==
    \E k \in 1..Len(t) :
        valid_isbn13(strip_separators(t[k]), get_valid_prefixes(store))

ContainsValid10(t) == \E k \in 1..Len(t) : valid_isbn10(strip_separators(t[k]))

RECURSIVE Concat(_)
Concat(ss) == IF ss = <<>> THEN <<>> ELSE Head(ss) \o Concat(Tail(ss))

\* r is the best identifier of the matches in `all`
BestOf(all, r) ==
    IF ContainsValid13(all)
    THEN /\ r # None
         /\ r[1].kind = "ISBN13"
         /\ \E k \in 1..Len(all) :
               /\ valid_isbn13(strip_separators(all[k]), get_valid_prefixes(store))
               /\ r[1].digits = strip_separators(all[k])
    ELSE IF ContainsValid10(all)
    THEN /\ r # None
         /\ r[1].kind = "ISBN10"
         /\ \E k \in 1..Len(all) :
               /\ valid_isbn10(strip_separators(all[k]))
               /\ r[1].digits = strip_separators(all[k])
    ELSE r = None

\* C1: when get_page_count returns None, get_isbn makes no extraction call and
\* no scanner feed, and returns None without raising.
C1_NoPageCountReturnsNone ==
    (Finished /\ PageCountUnavailable) =>
        /\ calls = <<>>
        /\ feeds = <<>>
        /\ isbn_outcome = Returned(None)

\* C2: with more than FRONT_PAGES + BACK_PAGES pages the first call extracts
\* [1, FRONT_PAGES] and its text is fed first; a second call is made, for
\* [total_pages - BACK_PAGES, total_pages], if and only if the front text held
\* no valid ISBN-13; a valid ISBN-13 in the front text makes has_identifier()
\* true and leaves the front call the only one.
C2_BackRangeOnlyWithoutFrontIdentifier ==
    (PageCountKnown /\ total_pages[1] > FRONT_PAGES + BACK_PAGES) =>
        /\ Len(calls) <= 2
        /\ Len(feeds) <= Len(calls)
        /\ (Len(calls) >= 1) =>
               (calls[1].first = Some(1) /\ calls[1].last = Some(FRONT_PAGES))
        /\ (Len(feeds) >= 1) => calls[1].ok
        /\ (Len(calls) = 2) =>
               /\ Len(feeds) >= 1
               /\ ~ContainsValid13(feeds[1])
               /\ calls[2].first = Some(total_pages[1] - BACK_PAGES)
               /\ calls[2].last = total_pages
        /\ (Finished /\ Len(feeds) >= 1 /\ ~ContainsValid13(feeds[1])) =>
               Len(calls) = 2
        /\ (Len(feeds) >= 1 /\ ContainsValid13(feeds[1])) =>
               (has_identifier(scanner[1]) /\ Len(calls) = 1)

C2_Witness ==
    /\ pc = "done"
    /\ total_pages = Some(FRONT_PAGES + BACK_PAGES + 1)
    /\ Len(feeds) = 1
    /\ ContainsValid13(feeds[1])
    /\ Len(calls) = 1
    /\ pdf_result.status = "info"
    /\ pdf_result.value # None

\* C3: with 0 <= total_pages <= FRONT_PAGES + BACK_PAGES one extraction call is
\* made, without first or last page, and the text it returns is fed to the
\* scanner once (nothing is fed when the call raises); no ranged call is made.
C3_WholeDocumentInOneCall ==
    (PageCountKnown /\ 0 <= total_pages[1]
                    /\ total_pages[1] <= FRONT_PAGES + BACK_PAGES) =>
        /\ Len(calls) <= 1
        /\ \A k \in 1..Len(calls) : calls[k].first = None /\ calls[k].last = None
        /\ Finished =>
               /\ Len(calls) = 1
               /\ Len(feeds) = (IF calls[1].ok THEN 1 ELSE 0)
               /\ calls[1].ok => feeds = <<text[1]>>

C3_Witness ==
    /\ pc = "done"
    /\ total_pages = Some(FRONT_PAGES + BACK_PAGES)
    /\ calls = <<Call(None, None, TRUE)>>
    /\ Len(feeds) = 1
    /\ feeds[1] # <<>>

\* C4: whatever texts were fed, in one chunk or several, the scanner's result
\* (and the value get_isbn returns) is a valid ISBN-13 of the fed texts if
\* there is one, else a valid ISBN-10 of them if there is one, else none.
C4_ResultPrefersIsbn13 ==
    /\ scanner # None => BestOf(Concat(feeds), get_isbn_result(scanner[1]))
    /\ (Finished /\ isbn_outcome.status = "return") =>
           BestOf(Concat(feeds), isbn_outcome.value)

C4_Witness ==
    /\ pc = "done"
    /\ Len(feeds) = 2
    /\ ContainsValid10(feeds[1])
    /\ ~ContainsValid13(feeds[1])
    /\ ContainsValid13(feeds[2])
    /\ isbn_outcome.status = "return"
    /\ isbn_outcome.value # None
    /\ isbn_outcome.value[1].kind = "ISBN13"

\* a usable prefix list: at least one entry, every entry three digits
WellFormedPrefixes(l) ==
    /\ l # <<>>
    /\ \A k \in 1..Len(l) :
           Len(l[k]) = 3 /\ \A j \in 1..3 : IsDigit(l[k][j])

\* C5: after save_settings stored an invalid prefix list, the prefix list read
\* back from the store is the default list 977, 978, 979.
C5_InvalidPrefixesFallBackToDefault ==
    (store # None /\ ~WellFormedPrefixes(store[1].validISBN13Prefix)) =>
        get_valid_prefixes(store) = DefaultPrefixes

\* C6: a failed extraction call is the last call of get_isbn, get_isbn ends by
\* raising the extractor's error with no identifier, and get_isbn_from_pdf
\* ends in an error, not in a result.
C6_ExtractionFailurePropagates ==
    \A k \in 1..Len(calls) :
        ~calls[k].ok =>
            /\ k = Len(calls)
            /\ Len(feeds) < k
            /\ Finished
            /\ isbn_outcome.status = "raise"
            /\ isbn_outcome.exc \in {"ConversionError", "DRMError"}
            /\ isbn_outcome.value = None
            /\ pc = "done" => pdf_result.status = "error"

C6_Witness ==
    /\ pc = "done"
    /\ PageCountKnown
    /\ total_pages[1] > FRONT_PAGES + BACK_PAGES
    /\ Len(calls) = 1
    /\ ~calls[1].ok
    /\ ~in_process
    /\ pdf_result.status = "error"
    /\ pdf_result.exc = "RuntimeError"

\* C7: the queue callback is invoked at most once however often do_queue is
\* entered, and only with books to scan; with no books to scan one warning is
\* shown and queue is never invoked; entries after the first change nothing.
C7_QueueInvokedAtMostOnce ==
    /\ queue_calls <= 1
    /\ warnings <= 1
    /\ queue_calls = 1 => books_to_scan # <<>>
    /\ (do_queue_calls >= 1 /\ books_to_scan = <<>>) =>
           (warnings = 1 /\ queue_calls = 0)
    /\ (do_queue_calls >= 1 /\ books_to_scan # <<>>) =>
           (warnings = 0 /\ queue_calls = 1)
    /\ do_queue_calls >= 1 => (~gui /\ hidden)

C7_Witness ==
    /\ do_queue_calls >= 2
    /\ queue_calls = 1
    /\ books_to_scan # <<>>

Processed == {book_ids[k] : k \in 1..i}

InList(l, b) == \E k \in 1..Len(l) : l[k].book_id = b

C9_LoopEndsInDoQueue ==
    /\ ~index_error
    /\ i <= Len(book_ids)
    /\ ~timer => do_queue_calls >= 1

\* C10: in the ranged branch every call names a range inside [1, total_pages],
\* the front range ends before the back range starts, and at most two calls
\* are made.
C10_RangesInsideAndDisjoint ==
    (PageCountKnown /\ total_pages[1] > FRONT_PAGES + BACK_PAGES) =>
        /\ Len(calls) <= 2
        /\ \A k \in 1..Len(calls) :
               /\ calls[k].first # None
               /\ calls[k].last # None
               /\ 1 <= calls[k].first[1]
               /\ calls[k].first[1] <= calls[k].last[1]
               /\ calls[k].last[1] <= total_pages[1]
        /\ Len(calls) = 2 => calls[1].last[1] < calls[2].first[1]

C10_Witness ==
    /\ pc = "done"
    /\ total_pages = Some(FRONT_PAGES + BACK_PAGES + 1)
    /\ Len(calls) = 2
    /\ calls[1].ok
    /\ calls[2].ok
    /\ calls[2].first = Some(FRONT_PAGES + 1)

====
